---------------------------- MODULE Spec2Model ----------------------------
(***************************************************************************)
(* State-machine model of client/src/components/FlappyBird.tsx: the game   *)
(* lifecycle (ready / playing / gameover), the per-frame simulation of     *)
(* gameLoop, the flap handler, the deferred hit -> gameover timer, the     *)
(* scheduling of frames with requestAnimationFrame, the unmount, and a     *)
(* localStorage.setItem that may throw.                                    *)
(*                                                                         *)
(* Numbers.  The source computes in floating point.  The model computes    *)
(* the same quantities exactly, on a grid:                                 *)
(*   time        one clock unit is a third of the reference frame, i.e.    *)
(*               16.67/3 ms; deltaTime = k/FRAME for an elapsed k units    *)
(*   velocity    kept as VS * velocity  (sixths of a pixel per frame)      *)
(*   y, gapY     kept as YS * y         (eighteenths of a pixel)           *)
(*   x, ground   whole pixels (PIPE_SPEED * k / FRAME = k)                 *)
(*   rotation    kept as RS * rotation, the easing step rounded down       *)
(* With these scales every product GRAVITY*dt, velocity*dt, PIPE_SPEED*dt  *)
(* of the source is an integer, so no rounding happens except in rotation. *)
(***************************************************************************)
EXTENDS Integers, Sequences, FiniteSets, TLC

\* ------------------------------------------------------------ constants
CANVAS_WIDTH == 400
CANVAS_HEIGHT == 600
\* GRAVITY = 0.5 = GRAVITY_NUM / GRAVITY_DEN
GRAVITY_NUM == 1
GRAVITY_DEN == 2
FLAP_IMPULSE == -8
TERMINAL_VELOCITY == 12
BIRD_X == 80
BIRD_RADIUS == 15
PIPE_WIDTH == 60
PIPE_GAP == 150
PIPE_SPEED == 3
PIPE_SPAWN_INTERVAL == 1600
MIN_PIPE_HEIGHT == 80
GROUND_HEIGHT == 80
\* the delay of the setTimeout that ends the run, in ms
HIT_DELAY == 100
\* the reference frame duration 16.67 ms, times 100
FRAME_MS_X100 == 1667

\* Math.PI / 2, times RS, rounded down
HALF_PI_RS == 188

\* ------------------------------------------------------------- the grid
\* clock units per reference frame
FRAME == 3
\* velocity scale
VS == 6
\* position scale
YS == 18
\* rotation scale (1/120 rad)
RS == 120

\* ---------------------------------------------------------------- bounds
\* no frame starts after MaxTime clock units, but the one that lets a pending
\* timer callback become due
MaxTime == 912
\* frames are STALL clock units apart (16 reference frames: a slow display)
STALL == 48
\* an input or a timer callback comes this long after a frame: a run started
\* 4 after a frame puts a pipe's trailing edge exactly on the bird's x
\* (8*48-4 = 380), one started 20 after a frame puts it exactly on the world's
\* left edge (10*48-20 = 460)
Delays == {4, 20}
\* a due setTimeout callback runs at most MaxLag clock units late: no frame
\* starts later than that
MaxLag == 48
\* Math.random() is drawn as n / RandDen
RandDen == 180
RandDraws == {0, 90, 179}
\* the best score found in localStorage at mount
MaxSavedBest == 1
\* the frames left in the specification for what must eventually happen
LiveFrames == 8

VARIABLES
    gameState,      \* gameStateRef.current
    bird,           \* birdRef.current: [y, velocity, rotation]
    pipes,          \* pipesRef.current
    score,          \* scoreRef.current
    bestScore,      \* bestScoreRef.current
    groundOffset,   \* groundOffsetRef.current
    lastPipeSpawn,  \* lastPipeSpawnRef.current
    pipeId,         \* pipeIdRef.current
    hasHit,         \* hasHitRef.current
    lastTime,       \* lastTimeRef.current
    now,            \* the wall clock (performance.now(), the frame timestamp)
    timers,         \* pending setTimeout callbacks: the clock value each was set at
    emitted,        \* the audio events the last step emitted, in order
    hitCount,       \* playHit() calls since the last resetGame
    dieCount,       \* playDie() calls since the last resetGame
    removed,        \* the pipes spliced out since the last resetGame
    animationFrame, \* animationFrameRef.current
    frameHandles,   \* the last handle requestAnimationFrame returned
    pendingFrame,   \* the handle of the scheduled gameLoop callback, 0 if none
    mounted         \* whether the component is mounted

vars == <<gameState, bird, pipes, score, bestScore, groundOffset, lastPipeSpawn,
          pipeId, hasHit, lastTime, now, timers, emitted, hitCount, dieCount,
          removed, animationFrame, frameHandles, pendingFrame, mounted>>

\* ----------------------------------------------------------- arithmetic
Min(a, b) == IF a < b THEN a ELSE b
Max(a, b) == IF a > b THEN a ELSE b

\* round toward minus infinity is what \div does; the source divides floats
\* and every division below but the one in Rotate is exact

\* ---------------------------------------------------------------- reset
\* resetGame that puts the bird at CANVAS_HEIGHT, not at half of it
RestingBird_NotCentred == [y |-> YS * CANVAS_HEIGHT, velocity |-> 0, rotation |-> 0]

\* resetGame: birdRef.current = { y: CANVAS_HEIGHT / 2, velocity: 0, rotation: 0 }
RestingBird == [y |-> (YS * CANVAS_HEIGHT) \div 2, velocity |-> 0, rotation |-> 0]

\* -------------------------------------------------------------- physics
\* bird.velocity += GRAVITY * deltaTime, for deltaTime = k / FRAME
Accelerate(v, k) == v + (VS * GRAVITY_NUM * k) \div (GRAVITY_DEN * FRAME)

\* the integration without the clamp
Clamp_None(v) == v

\* bird.velocity = Math.min(bird.velocity, TERMINAL_VELOCITY)
Clamp(v) == Min(v, VS * TERMINAL_VELOCITY)

\* bird.y += bird.velocity * deltaTime
Move(y, v, k) == y + (YS * v * k) \div (VS * FRAME)

\* targetRotation = Math.min(Math.max(bird.velocity * 0.05, -0.5), Math.PI / 2)
\* (Math.PI / 2 * RS = 188.49..., and RS * velocity * 0.05 is an integer)
TargetRotation(v) == Min(Max((RS * v) \div (VS * 20), -(RS \div 2)), HALF_PI_RS)

\* bird.rotation += (targetRotation - bird.rotation) * 0.1
Rotate(r, v) == r + (TargetRotation(v) - r) \div 10

\* the integration that moves the bird by the velocity it had before the frame
Physics_StaleVelocity(b, k) ==
    LET v == Clamp(Accelerate(b.velocity, k))
    IN [y |-> Move(b.y, b.velocity, k), velocity |-> v, rotation |-> Rotate(b.rotation, v)]

\* the bird after one playing frame of k clock units
Physics(b, k) ==
    LET v == Clamp(Accelerate(b.velocity, k))
    IN [y |-> Move(b.y, v, k), velocity |-> v, rotation |-> Rotate(b.rotation, v)]

\* ---------------------------------------------------------------- pipes
\* the test against the clock alone: currentTime > PIPE_SPAWN_INTERVAL
SpawnDue_Absolute(t, last) == t * FRAME_MS_X100 > PIPE_SPAWN_INTERVAL * 100 * FRAME

\* currentTime - lastPipeSpawnRef.current > PIPE_SPAWN_INTERVAL
SpawnDue(t, last) == (t - last) * FRAME_MS_X100 > PIPE_SPAWN_INTERVAL * 100 * FRAME

\* the gap centre drawn over the whole height above the ground
GapY_Anywhere(n) == (n * YS * (CANVAS_HEIGHT - GROUND_HEIGHT)) \div RandDen

\* gapY = minGapY + Math.random() * (maxGapY - minGapY), Math.random() = n / RandDen
GapY(n) ==
    LET minGapY == YS * MIN_PIPE_HEIGHT + (YS * PIPE_GAP) \div 2
        maxGapY == YS * (CANVAS_HEIGHT - GROUND_HEIGHT - MIN_PIPE_HEIGHT) - (YS * PIPE_GAP) \div 2
    IN minGapY + (n * (maxGapY - minGapY)) \div RandDen

\* the pipe pushed by the spawn
NewPipe(n, id) == [x |-> CANVAS_WIDTH, gapY |-> GapY(n), passed |-> FALSE, id |-> id]

\* pipe.x -= PIPE_SPEED * deltaTime
Advanced(p, k) == [p EXCEPT !.x = p.x - (PIPE_SPEED * k) \div FRAME]

\* the test without !pipe.passed
JustPassed_Again(p) == p.x + PIPE_WIDTH < BIRD_X

\* the test with <= for <
JustPassed_Early(p) == ~p.passed /\ p.x + PIPE_WIDTH <= BIRD_X

\* !pipe.passed && pipe.x + PIPE_WIDTH < BIRD_X
JustPassed(p) == ~p.passed /\ p.x + PIPE_WIDTH < BIRD_X

\* pipe.x + PIPE_WIDTH < 0
OffScreen(p) == p.x + PIPE_WIDTH < 0

\* pipes.splice(i, 1)
Splice(ps, i) == [j \in 1..(Len(ps) - 1) |-> IF j < i THEN ps[j] ELSE ps[j + 1]]

\* a best score that is raised only from two points behind
NewBest_Behind(sc, best) == sc > best + 1

\* if (scoreRef.current > bestScoreRef.current): the score is a new best
NewBest(sc, best) == sc > best

\* for (let i = pipes.length - 1; i >= 0; i--) { ... }: the loop from index i
\* (1-based) down, on the loop's state
\* st = [pipes, score, best, removed, events, thrown].  ok says whether
\* localStorage.setItem returns; when it throws, the exception leaves the loop
\* and gameLoop at once (nothing catches it).
RECURSIVE UpdatePipes(_, _, _, _)
UpdatePipes(st, i, k, ok) ==
    IF i < 1 THEN st
    ELSE LET moved == Advanced(st.pipes[i], k)
             scored == JustPassed(moved)
             pipe == IF scored THEN [moved EXCEPT !.passed = TRUE] ELSE moved
             sc == IF scored THEN st.score + 1 ELSE st.score
             write == scored /\ NewBest(sc, st.best)
             bs == IF write THEN sc ELSE st.best
             ev == IF scored THEN Append(st.events, "score") ELSE st.events
             kept == [st.pipes EXCEPT ![i] = pipe]
         IN IF write /\ ~ok
            THEN [pipes |-> kept, score |-> sc, best |-> bs, removed |-> st.removed,
                  events |-> ev, thrown |-> TRUE]
            ELSE UpdatePipes([pipes |-> IF OffScreen(pipe) THEN Splice(kept, i) ELSE kept,
                              score |-> sc,
                              best |-> bs,
                              removed |-> IF OffScreen(pipe) THEN Append(st.removed, pipe)
                                          ELSE st.removed,
                              events |-> ev,
                              thrown |-> FALSE],
                             i - 1, k, ok)

\* ------------------------------------------------------------ collision
\* the pipe test with the gap's edges counted as pipe
HitsPipe_EdgesHit(b, p) ==
    LET birdTop == b.y - YS * BIRD_RADIUS
        birdBottom == b.y + YS * BIRD_RADIUS
        gapTop == p.gapY - (YS * PIPE_GAP) \div 2
        gapBottom == p.gapY + (YS * PIPE_GAP) \div 2
    IN /\ BIRD_X + BIRD_RADIUS > p.x
       /\ BIRD_X - BIRD_RADIUS < p.x + PIPE_WIDTH
       /\ (birdTop <= gapTop \/ birdBottom >= gapBottom)

\* one pipe of checkCollision's loop
HitsPipe(b, p) ==
    LET birdTop == b.y - YS * BIRD_RADIUS
        birdBottom == b.y + YS * BIRD_RADIUS
        birdLeft == BIRD_X - BIRD_RADIUS
        birdRight == BIRD_X + BIRD_RADIUS
        gapTop == p.gapY - (YS * PIPE_GAP) \div 2
        gapBottom == p.gapY + (YS * PIPE_GAP) \div 2
    IN /\ birdRight > p.x
       /\ birdLeft < p.x + PIPE_WIDTH
       /\ (birdTop < gapTop \/ birdBottom > gapBottom)

checkCollision(b, ps) ==
    \/ b.y + YS * BIRD_RADIUS >= YS * (CANVAS_HEIGHT - GROUND_HEIGHT)
    \/ b.y - YS * BIRD_RADIUS <= 0
    \/ \E i \in 1..Len(ps) : HitsPipe(b, ps[i])

\* ----------------------------------------------------------------- Init
Init ==
    /\ gameState = "ready"
    /\ bird = RestingBird
    /\ pipes = <<>>
    /\ score = 0
    /\ bestScore \in 0..MaxSavedBest
    /\ groundOffset = 0
    /\ lastPipeSpawn = 0
    /\ pipeId = 0
    /\ hasHit = FALSE
    /\ lastTime = 0
    /\ now = 0
    /\ timers = <<>>
    /\ emitted = <<>>
    /\ hitCount = 0
    /\ dieCount = 0
    /\ removed = <<>>
    /\ frameHandles = 1
    /\ animationFrame = frameHandles
    /\ pendingFrame = frameHandles
    /\ mounted = TRUE

\* -------------------------------------------------------------- actions
\* a setTimeout whose delay the event loop ignores
Expired_AtOnce(s, t) == t >= s

\* whether a timer set at clock value s has run out at clock value t
Expired(s, t) == (t - s) * FRAME_MS_X100 >= HIT_DELAY * 100 * FRAME

\* whether a timer set at s is more than MaxLag late at t
Overdue(s, t) == Expired(s, t - MaxLag - 1)

\* the state flap() starts its second and third test in
FlapStart == IF gameState = "ready" THEN "playing" ELSE gameState

\* flap() with its third test dropped: a flap at game over does nothing
FlapEnd_NoRestart == FlapStart

\* the state flap() ends in
FlapEnd == IF FlapStart = "gameover" THEN "ready" ELSE FlapStart

\* a flap that adds the impulse to the velocity
FlapVelocity_Additive(reset, playing) ==
    IF playing THEN (IF reset THEN 0 ELSE bird.velocity) + VS * FLAP_IMPULSE
    ELSE IF reset THEN 0 ELSE bird.velocity

\* a flap that sets the impulse in every state
FlapVelocity_Always(reset, playing) == VS * FLAP_IMPULSE

\* the velocity flap() leaves
FlapVelocity(reset, playing) ==
    IF playing THEN VS * FLAP_IMPULSE
    ELSE IF reset THEN 0 ELSE bird.velocity

\* flap() with a resetGame that also clears bestScoreRef
Flap_ResetsBest ==
    LET reset == gameState = "ready" \/ FlapStart = "gameover"
        playing == FlapStart = "playing"
    IN /\ mounted
       /\ gameState' = FlapEnd
       /\ bird' = [(IF reset THEN RestingBird ELSE bird)
                       EXCEPT !.velocity = FlapVelocity(reset, playing)]
       /\ pipes' = IF reset THEN <<>> ELSE pipes
       /\ score' = IF reset THEN 0 ELSE score
       /\ bestScore' = IF reset THEN 0 ELSE bestScore
       /\ groundOffset' = IF reset THEN 0 ELSE groundOffset
       /\ lastPipeSpawn' = IF reset THEN 0 ELSE lastPipeSpawn
       /\ pipeId' = IF reset THEN 0 ELSE pipeId
       /\ hasHit' = IF reset THEN FALSE ELSE hasHit
       /\ lastTime' = IF gameState = "ready" THEN now ELSE lastTime
       /\ emitted' = IF playing THEN <<"flap">> ELSE <<>>
       /\ hitCount' = IF reset THEN 0 ELSE hitCount
       /\ dieCount' = IF reset THEN 0 ELSE dieCount
       /\ removed' = IF reset THEN <<>> ELSE removed
       /\ UNCHANGED <<now, timers, animationFrame, frameHandles, pendingFrame, mounted>>

\* flap(): key, click or touch
Flap ==
    LET reset == gameState = "ready" \/ FlapStart = "gameover"
        playing == FlapStart = "playing"
    IN /\ mounted
       /\ gameState' = FlapEnd
       /\ bird' = [(IF reset THEN RestingBird ELSE bird)
                       EXCEPT !.velocity = FlapVelocity(reset, playing)]
       /\ pipes' = IF reset THEN <<>> ELSE pipes
       /\ score' = IF reset THEN 0 ELSE score
       /\ groundOffset' = IF reset THEN 0 ELSE groundOffset
       /\ lastPipeSpawn' = IF reset THEN 0 ELSE lastPipeSpawn
       /\ pipeId' = IF reset THEN 0 ELSE pipeId
       /\ hasHit' = IF reset THEN FALSE ELSE hasHit
       /\ lastTime' = IF gameState = "ready" THEN now ELSE lastTime
       /\ emitted' = IF playing THEN <<"flap">> ELSE <<>>
       /\ hitCount' = IF reset THEN 0 ELSE hitCount
       /\ dieCount' = IF reset THEN 0 ELSE dieCount
       /\ removed' = IF reset THEN <<>> ELSE removed
       /\ UNCHANGED <<bestScore, now, timers, animationFrame, frameHandles,
                      pendingFrame, mounted>>

\* a frame that always takes deltaTime 1
DeltaTime_One(t) == FRAME

\* deltaTime = lastTimeRef.current ? (currentTime - lastTimeRef.current) / 16.67 : 1
DeltaTime(t) == IF lastTime # 0 THEN t - lastTime ELSE FRAME

\* the timestamp of the next frame
NextFrame == now - (now % STALL) + STALL

\* Time passes after a frame, before an input or a timer callback.  Only the
\* flap that starts a run and the timer callback read the clock, so time
\* passes only where one of them can follow.
Wait(d) ==
    /\ now % STALL = 0
    /\ \/ gameState = "ready" /\ mounted /\ now + d <= MaxTime
       \/ timers # <<>>
    /\ now' = now + d
    /\ UNCHANGED <<gameState, bird, pipes, score, bestScore, groundOffset,
                   lastPipeSpawn, pipeId, hasHit, lastTime, timers, emitted,
                   hitCount, dieCount, removed, animationFrame, frameHandles,
                   pendingFrame, mounted>>

\* the collision check without its !hasHitRef.current guard
Collides_Unguarded(b, ps) == checkCollision(b, ps)

\* whether this frame runs the collision check and finds a collision
Collides(b, ps) == ~hasHit /\ checkCollision(b, ps)

\* a frame that simulates at game over too
Playing_OrGameOver == gameState # "ready"

\* if (gameStateRef.current === 'playing'): whether a frame simulates
Playing == gameState = "playing"

\* gameLoop(currentTime), the scheduled callback, run for the next frame; n
\* is the frame's Math.random().  A localStorage.setItem of the frame returns
\* or throws: loop is one of the outcomes of the pipe loop.  A frame that
\* throws checks no collision and schedules no next frame.
Tick(n) ==
    LET t == NextFrame
        k == DeltaTime(t)
        spawn == SpawnDue(t, lastPipeSpawn)
        spawned == IF spawn THEN Append(pipes, NewPipe(n, pipeId)) ELSE pipes
        start == [pipes |-> spawned, score |-> score, best |-> bestScore,
                  removed |-> removed, events |-> <<>>, thrown |-> FALSE]
        outcomes == IF Playing
                    THEN {UpdatePipes(start, Len(spawned), k, ok) : ok \in BOOLEAN}
                    ELSE {[thrown |-> FALSE]}
    IN /\ pendingFrame # 0
       /\ t <= MaxTime \/ timers # <<>>
       /\ \A i \in 1..Len(timers) : ~Overdue(timers[i], t)
       /\ now' = t
       /\ lastTime' = t
       /\ \E loop \in outcomes :
            /\ IF loop.thrown
               THEN pendingFrame' = 0 /\ UNCHANGED <<frameHandles, animationFrame>>
               ELSE /\ frameHandles' = frameHandles + 1
                    /\ animationFrame' = frameHandles'
                    /\ pendingFrame' = frameHandles'
            /\ IF Playing
               THEN \E b \in {Physics(bird, k)} :
                    \E hit \in {~loop.thrown /\ Collides(b, loop.pipes)} :
                      /\ groundOffset' = groundOffset + (PIPE_SPEED * k) \div FRAME
                      /\ bird' = b
                      /\ pipes' = loop.pipes
                      /\ pipeId' = IF spawn THEN pipeId + 1 ELSE pipeId
                      /\ lastPipeSpawn' = IF spawn THEN t ELSE lastPipeSpawn
                      /\ score' = loop.score
                      /\ bestScore' = loop.best
                      /\ removed' = loop.removed
                      /\ hasHit' = (hasHit \/ hit)
                      /\ hitCount' = IF hit THEN hitCount + 1 ELSE hitCount
                      /\ timers' = IF hit THEN Append(timers, t) ELSE timers
                      /\ emitted' = IF hit THEN Append(loop.events, "hit") ELSE loop.events
               ELSE /\ emitted' = <<>>
                    /\ UNCHANGED <<groundOffset, bird, pipes, pipeId, lastPipeSpawn,
                                   score, bestScore, removed, hasHit, hitCount, timers>>
       /\ UNCHANGED <<gameState, dieCount, mounted>>

\* the setTimeout callback of the collision branch
TimerFire ==
    /\ timers # <<>>
    /\ Expired(Head(timers), now)
    /\ timers' = Tail(timers)
    /\ gameState' = "gameover"
    /\ dieCount' = dieCount + 1
    /\ emitted' = <<"die">>
    /\ UNCHANGED <<bird, pipes, score, bestScore, groundOffset, lastPipeSpawn,
                   pipeId, hasHit, lastTime, now, hitCount, removed,
                   animationFrame, frameHandles, pendingFrame, mounted>>

\* a cleanup that cancels nothing
Cancel_Nothing(pending, h) == pending

\* if (animationFrameRef.current) cancelAnimationFrame(animationFrameRef.current):
\* the pending callback after the call, for the handle h the ref holds
Cancel(pending, h) == IF h # 0 /\ pending = h THEN 0 ELSE pending

\* unmount: the cleanups of the effects.  The frame loop's and the
\* initializer's cancel the handle in animationFrameRef, the input effect's
\* removes the listeners.  Nothing clears a pending setTimeout.
Teardown ==
    /\ mounted
    /\ mounted' = FALSE
    /\ pendingFrame' = Cancel(Cancel(pendingFrame, animationFrame), animationFrame)
    /\ UNCHANGED <<gameState, bird, pipes, score, bestScore, groundOffset,
                   lastPipeSpawn, pipeId, hasHit, lastTime, now, timers, emitted,
                   hitCount, dieCount, removed, animationFrame, frameHandles>>

Next ==
    \/ \E d \in Delays : Wait(d)
    \/ Flap
    \/ \E n \in RandDraws : Tick(n)
    \/ TimerFire
    \/ Teardown

Spec == Init /\ [][Next]_vars

\* The specification for what must eventually happen.  It starts from the
\* ready screen after idle frames, LiveFrames frames before the last one, with
\* no best score, and draws every pipe's gap in the middle.
\* requestAnimationFrame(gameLoop) at the end of every frame keeps the frames
\* coming, and the event loop runs a due timer callback; the component stays
\* mounted.
FairInit ==
    /\ gameState = "ready"
    /\ bird = RestingBird
    /\ pipes = <<>>
    /\ score = 0
    /\ bestScore = 0
    /\ groundOffset = 0
    /\ lastPipeSpawn = 0
    /\ pipeId = 0
    /\ hasHit = FALSE
    /\ now = MaxTime - (MaxTime % STALL) - LiveFrames * STALL
    /\ lastTime = now
    /\ timers = <<>>
    /\ emitted = <<>>
    /\ hitCount = 0
    /\ dieCount = 0
    /\ removed = <<>>
    /\ frameHandles = 1
    /\ animationFrame = frameHandles
    /\ pendingFrame = frameHandles
    /\ mounted = TRUE

FairNext ==
    \/ \E d \in Delays : Wait(d)
    \/ Flap
    \/ Tick(RandDen \div 2)
    \/ TimerFire

FairSpec ==
    /\ FairInit
    /\ [][FairNext]_vars
    /\ WF_vars(Tick(RandDen \div 2))
    /\ WF_vars(TimerFire)

\* The specification for checkCollision as a function of the bird and the
\* pipe list: it starts one frame before the last, just after a flap while
\* playing (so the frame leaves the bird's y as it is), with the bird's y and
\* the pipes drawn so that the frame puts them on and next to every edge the
\* function tests.
CollisionXs ==
    {BIRD_X + BIRD_RADIUS, BIRD_X + BIRD_RADIUS - 1,
     BIRD_X - BIRD_RADIUS - PIPE_WIDTH, BIRD_X - BIRD_RADIUS - PIPE_WIDTH + 1,
     CANVAS_WIDTH - 3 * STALL}

CollisionGaps == {GapY(0), GapY(RandDen \div 2)}

\* the bird's top on the gap's top, the bird's bottom on the gap's bottom
GapEdgeYs(g) ==
    {g - (YS * PIPE_GAP) \div 2 + YS * BIRD_RADIUS,
     g + (YS * PIPE_GAP) \div 2 - YS * BIRD_RADIUS}

CollisionYs ==
    LET edges == {YS * BIRD_RADIUS, YS * (CANVAS_HEIGHT - GROUND_HEIGHT - BIRD_RADIUS)}
                     \cup UNION {GapEdgeYs(g) : g \in CollisionGaps}
    IN {RestingBird.y} \cup edges \cup {y - 1 : y \in edges} \cup {y + 1 : y \in edges}

CollisionPipes ==
    {[x |-> x + (PIPE_SPEED * STALL) \div FRAME, gapY |-> g] :
        x \in CollisionXs, g \in CollisionGaps}

CollisionLists ==
    {<<>>} \cup {<<p>> : p \in CollisionPipes}
           \cup {<<p, q>> : p \in CollisionPipes, q \in CollisionPipes}

CollisionInit ==
    /\ gameState = "playing"
    /\ \E y \in CollisionYs :
           bird = [y |-> y, velocity |-> VS * FLAP_IMPULSE, rotation |-> 0]
    /\ \E l \in CollisionLists :
           pipes = [i \in DOMAIN l |->
                       [x |-> l[i].x, gapY |-> l[i].gapY, passed |-> FALSE, id |-> i - 1]]
    /\ score = 0
    /\ bestScore = 0
    /\ groundOffset = 0
    /\ pipeId = Len(pipes)
    /\ hasHit = FALSE
    /\ now = MaxTime - (MaxTime % STALL) - STALL
    /\ lastTime = now
    /\ lastPipeSpawn = now
    /\ timers = <<>>
    /\ emitted = <<"flap">>
    /\ hitCount = 0
    /\ dieCount = 0
    /\ removed = <<>>
    /\ frameHandles = 1
    /\ animationFrame = frameHandles
    /\ pendingFrame = frameHandles
    /\ mounted = TRUE

CollisionSpec == CollisionInit /\ [][Next]_vars

\* The specification for a long frame: the tab was hidden and the browser ran
\* no frame at the last frame time, so the frame to come has twice the gap.
\* It starts while playing, the bird hovering or falling, with the pipes drawn
\* so that the long frame takes them to and across the bird's x and the
\* world's left edge.
LongFrame == 2 * STALL

StallXs ==
    {(PIPE_SPEED * LongFrame) \div FRAME - PIPE_WIDTH - 1,
     (PIPE_SPEED * LongFrame) \div FRAME - PIPE_WIDTH,
     BIRD_X + (PIPE_SPEED * LongFrame) \div FRAME - PIPE_WIDTH - 1,
     BIRD_X + (PIPE_SPEED * LongFrame) \div FRAME - PIPE_WIDTH}

\* the distance between two pipes spawned PIPE_SPAWN_INTERVAL apart
PipeSpacing == (PIPE_SPEED * PIPE_SPAWN_INTERVAL * 100) \div FRAME_MS_X100

StallLists ==
    {<<>>} \cup {<<x>> : x \in StallXs} \cup {<<x, x + PipeSpacing>> : x \in StallXs}

StallInit ==
    /\ gameState = "playing"
    /\ \E v \in {VS * FLAP_IMPULSE, 0}, y \in {RestingBird.y, RestingBird.y \div 2} :
           bird = [y |-> y, velocity |-> v, rotation |-> 0]
    /\ \E l \in StallLists :
           pipes = [i \in DOMAIN l |->
                       [x |-> l[i], gapY |-> GapY(RandDen \div 2), passed |-> FALSE,
                        id |-> i - 1]]
    /\ score = 0
    /\ bestScore \in 0..MaxSavedBest
    /\ groundOffset = 0
    /\ pipeId = Len(pipes)
    /\ hasHit = FALSE
    /\ now = MaxTime - (MaxTime % STALL) - STALL
    /\ lastTime = now - STALL
    /\ lastPipeSpawn = lastTime
    /\ timers = <<>>
    /\ emitted = <<>>
    /\ hitCount = 0
    /\ dieCount = 0
    /\ removed = <<>>
    /\ frameHandles = 1
    /\ animationFrame = frameHandles
    /\ pendingFrame = frameHandles
    /\ mounted = TRUE

StallSpec == StallInit /\ [][Next]_vars

\* The specification for a frame after a hidden tab: the browser ran no frame
\* for five frame times.  It starts while playing with two pipes a
\* spawn interval apart, the older one passed and near the world's left edge,
\* the younger one a few frames old, so that the frame to come takes the
\* younger one across the bird's x and is due to spawn a third.
HiddenFrame == 5 * STALL

\* the frames run since the younger pipe was spawned, the spawning one included
HiddenAges == {2, 3}

\* the frames from one spawn to the next at the stalled frame rate
SpawnFrames == (PIPE_SPAWN_INTERVAL * 100 * FRAME) \div (FRAME_MS_X100 * STALL) + 1

HiddenInit ==
    /\ gameState = "playing"
    /\ \E v \in {VS * FLAP_IMPULSE, 0}, y \in {RestingBird.y, RestingBird.y \div 2} :
           bird = [y |-> y, velocity |-> v, rotation |-> 0]
    /\ now = MaxTime - (MaxTime % STALL) - 2 * STALL
    /\ lastTime = now - (HiddenFrame - STALL)
    /\ \E a \in HiddenAges :
           /\ pipes = <<[x |-> CANVAS_WIDTH - (a + SpawnFrames) * ((PIPE_SPEED * STALL) \div FRAME),
                         gapY |-> GapY(RandDen \div 2), passed |-> TRUE, id |-> 0],
                        [x |-> CANVAS_WIDTH - a * ((PIPE_SPEED * STALL) \div FRAME),
                         gapY |-> GapY(RandDen \div 2), passed |-> FALSE, id |-> 1]>>
           /\ lastPipeSpawn = lastTime - (a - 1) * STALL
    /\ score = 1
    /\ bestScore \in score..(score + MaxSavedBest)
    /\ groundOffset = 0
    /\ pipeId = Len(pipes)
    /\ hasHit = FALSE
    /\ timers = <<>>
    /\ emitted = <<>>
    /\ hitCount = 0
    /\ dieCount = 0
    /\ removed = <<>>
    /\ frameHandles = 1
    /\ animationFrame = frameHandles
    /\ pendingFrame = frameHandles
    /\ mounted = TRUE

HiddenSpec == HiddenInit /\ [][Next]_vars

\* The specification for the physics step as a function of the bird and the
\* multiplier: it starts while playing with no pipes, the bird's y and
\* velocity drawn from the resting state, the world's edges and the terminal
\* velocity, and the last frame drawn so that the frame to come has a
\* multiplier of 1/3, 1, 2 or 16.
PhysicsYs ==
    {RestingBird.y, YS * (BIRD_RADIUS + 1), YS * 100,
     YS * (CANVAS_HEIGHT - GROUND_HEIGHT - BIRD_RADIUS) - 10}

PhysicsVs ==
    {VS * FLAP_IMPULSE, -3, 0, VS * TERMINAL_VELOCITY - 3, VS * TERMINAL_VELOCITY - 2,
     VS * TERMINAL_VELOCITY}

PhysicsGaps == {1, FRAME, 2 * FRAME, STALL}

PhysicsInit ==
    /\ gameState = "playing"
    /\ \E y \in PhysicsYs, v \in PhysicsVs :
           bird = [y |-> y, velocity |-> v, rotation |-> 0]
    /\ pipes = <<>>
    /\ score = 0
    /\ bestScore = 0
    /\ groundOffset = 0
    /\ pipeId = 0
    /\ hasHit = FALSE
    /\ \E k \in PhysicsGaps : now = MaxTime - (MaxTime % STALL) - STALL - k
    /\ lastTime = now
    /\ lastPipeSpawn = now
    /\ timers = <<>>
    /\ emitted = <<>>
    /\ hitCount = 0
    /\ dieCount = 0
    /\ removed = <<>>
    /\ frameHandles = 1
    /\ animationFrame = frameHandles
    /\ pendingFrame = frameHandles
    /\ mounted = TRUE

PhysicsSpec == PhysicsInit /\ [][Next]_vars

\* ===================================================================
\* Properties
\* ===================================================================
\* a frame step
IsFrame == \E n \in RandDraws : Tick(n)

\* C1: the game state starts ready and changes only ready -> playing on a
\* flap, playing -> gameover on the timer callback of a detected collision,
\* gameover -> ready on a flap; a frame never changes it, a flap while playing
\* never changes it, and a flap at game over always leaves game over.
C1_Lifecycle ==
    /\ gameState = "ready"
    /\ [][/\ gameState' # gameState =>
                \/ gameState = "ready" /\ gameState' = "playing" /\ Flap
                \/ gameState = "playing" /\ gameState' = "gameover" /\ TimerFire /\ hasHit
                \/ gameState = "gameover" /\ gameState' = "ready" /\ Flap
          /\ IsFrame => gameState' = gameState
          /\ Flap /\ gameState = "playing" => gameState' = "playing"
          /\ Flap /\ gameState = "gameover" => gameState' = "ready"]_vars
    /\ [](gameState = "gameover" /\ mounted => ENABLED (Flap /\ gameState' = "ready"))

\* a whole cycle has been run: back in ready with a best score made in a run
C1_Witness == gameState = "ready" /\ bestScore > MaxSavedBest

\* C2 (as amended): a flap while ready leaves the state playing with the bird
\* at y = 300, rotation 0, no pipes and score 0, and with velocity
\* FLAP_IMPULSE (-8): the same call applies the flap impulse.
C2_FlapFromReady ==
    [][Flap /\ gameState = "ready" =>
          /\ gameState' = "playing"
          /\ bird'.y = 300 * YS
          /\ bird'.velocity = -8 * VS
          /\ bird'.rotation = 0
          /\ pipes' = <<>>
          /\ score' = 0]_vars

\* C2 as stated: the flap while ready leaves velocity 0
C2_AsStated ==
    [][Flap /\ gameState = "ready" =>
          /\ gameState' = "playing"
          /\ bird'.y = 300 * YS
          /\ bird'.velocity = 0
          /\ bird'.rotation = 0
          /\ pipes' = <<>>
          /\ score' = 0]_vars

\* a run has just been started by a flap that came between two frames
C2_Witness ==
    /\ gameState = "playing"
    /\ emitted = <<"flap">>
    /\ lastTime = now
    /\ now % STALL # 0
    /\ pipes = <<>>
    /\ score = 0
    /\ groundOffset = 0

\* C3 as stated: between the frame that detects a collision and the timer
\* callback, a frame changes neither the bird's y and velocity, nor the pipes,
\* the score and the ground offset, and checks no collision.
C3_FrozenWindow ==
    [][IsFrame /\ gameState = "playing" /\ hasHit =>
          /\ bird'.y = bird.y
          /\ bird'.velocity = bird.velocity
          /\ pipes' = pipes
          /\ score' = score
          /\ groundOffset' = groundOffset
          /\ hitCount' = hitCount
          /\ timers' = timers]_vars

\* C4: in a run the hit event is emitted at most once, on the frame that
\* first detects a collision; the die event is emitted only after a hit, at
\* most once, in the step that makes the state gameover; at game over both
\* have been emitted exactly once.
C4_HitDieOnce ==
    /\ [](/\ hitCount <= 1
          /\ dieCount <= hitCount
          /\ hasHit <=> hitCount = 1
          /\ gameState = "gameover" <=> dieCount = 1)
    /\ [][/\ hitCount' > hitCount =>
                IsFrame /\ gameState = "playing" /\ ~hasHit /\ checkCollision(bird', pipes')
          /\ dieCount' > dieCount =>
                hitCount = 1 /\ gameState = "playing" /\ gameState' = "gameover"]_vars

\* a frame ran between hit and die, with the bird still colliding, and
\* emitted no second hit
C4_Witness ==
    /\ gameState = "gameover"
    /\ hitCount = 1
    /\ dieCount = 1
    /\ checkCollision(bird, pipes)
    /\ groundOffset > 0
    /\ lastTime = now
    /\ emitted = <<"die">>

\* C5: the frame that detects a collision leaves the state playing; the
\* state becomes gameover only in the timer callback, which runs no sooner
\* than 100 ms after that frame; and, frames and due callbacks being run, a
\* detected collision leads to gameover.
C5_DeferredGameOver ==
    /\ [][/\ ~hasHit /\ hasHit' => gameState' = "playing" /\ timers' = <<now'>>
          /\ gameState' = "gameover" /\ gameState # "gameover" =>
                /\ timers # <<>>
                /\ (now - Head(timers)) * 1667 >= 100 * 100 * FRAME]_vars
    /\ (hasHit /\ gameState = "playing") ~> gameState = "gameover"

\* a frame ran while the timer was pending, and the state is still playing
C5_Witness ==
    /\ gameState = "playing"
    /\ hasHit
    /\ timers # <<>>
    /\ lastTime > Head(timers)

\* the pipes of this run whose passed flag is set
PassedIds == {pipes[i].id : i \in {j \in DOMAIN pipes : pipes[j].passed}}
                 \cup {removed[i].id : i \in {j \in DOMAIN removed : removed[j].passed}}

\* C6: the score is the number of pipes of the run whose passed flag is set,
\* pruned ones included; a pipe's flag never goes back to false, and the
\* score grows by one for each pipe whose flag is set in a step.
C6_ScoreCountsPassed ==
    /\ [](score = Cardinality(PassedIds))
    /\ [](\A i, j \in DOMAIN pipes : i # j => pipes[i].id # pipes[j].id)
    /\ [][IsFrame /\ gameState = "playing" =>
             /\ PassedIds \subseteq PassedIds'
             /\ score' - score = Cardinality(PassedIds' \ PassedIds)]_vars

\* a scored pipe has been pruned while another is active
C6_Witness == score >= 1 /\ Len(removed) >= 1 /\ Len(pipes) >= 1

\* C7: at the end of every playing frame (so in every state) an active pipe
\* has passed set if and only if pipe.x + 60 < 80.
C7_PassedIffBehind ==
    \A i \in DOMAIN pipes : pipes[i].passed <=> pipes[i].x + 60 < 80

\* a pipe's trailing edge is exactly on the bird's x, and it is not passed
C7_Witness ==
    \E i \in DOMAIN pipes : pipes[i].x + 60 = 80 /\ ~pipes[i].passed

\* C8: the bird's velocity is at most TERMINAL_VELOCITY (12) in every
\* reachable state.
C8_VelocityBounded == bird.velocity <= 12 * VS

\* the clamp has acted: velocity 8 plus 16 frames of gravity is 16, kept to 12
C8_Witness == gameState = "playing" /\ hitCount = 1 /\ bird.velocity = 12 * VS

\* the simulation state a flap can change
Sim == <<gameState, bird, pipes, score, bestScore, groundOffset, lastPipeSpawn,
         pipeId, hasHit, lastTime, timers>>

\* C9: a flap while playing sets the velocity to FLAP_IMPULSE (-8) whatever it
\* was, and changes neither the state, the bird's y, the pipes nor the score;
\* a second flap right after changes nothing.
C9_FlapOverrides ==
    /\ [][Flap /\ gameState = "playing" =>
             /\ bird'.velocity = -8 * VS
             /\ gameState' = "playing"
             /\ bird'.y = bird.y
             /\ pipes' = pipes
             /\ score' = score]_vars
    /\ [](gameState = "playing" /\ emitted = <<"flap">> => ~ENABLED (Flap /\ Sim' # Sim))

\* a flap while falling at terminal velocity
C9_Witness ==
    /\ gameState = "playing"
    /\ emitted = <<"flap">>
    /\ bird.velocity = -8 * VS
    /\ bird.y > 300 * YS
    /\ bird.rotation > 0

\* a playing frame has just run its collision check
Checked ==
    /\ gameState = "playing"
    /\ lastTime = now
    /\ emitted # <<"flap">>
    /\ pendingFrame # 0
    /\ hasHit => timers = <<now>>

\* C10: checkCollision is true if and only if y+15 >= 520, or y-15 <= 0, or
\* some active pipe has 95 > x and 65 < x+60 with y-15 < gapY-75 or
\* y+15 > gapY+75.
C10_CollisionIff ==
    Checked =>
        (hasHit <=>
            \/ bird.y + 15 * YS >= 520 * YS
            \/ bird.y - 15 * YS <= 0
            \/ \E i \in DOMAIN pipes :
                  /\ 95 > pipes[i].x
                  /\ 65 < pipes[i].x + 60
                  /\ \/ bird.y - 15 * YS < pipes[i].gapY - 75 * YS
                     \/ bird.y + 15 * YS > pipes[i].gapY + 75 * YS)

\* the bird fills the gap of the second pipe exactly, top on the gap's top,
\* while the first pipe's leading edge is exactly on the bird's right: no hit
C10_Witness ==
    /\ Checked
    /\ ~hasHit
    /\ Len(pipes) = 2
    /\ pipes[1].x = 95
    /\ 95 > pipes[2].x /\ 65 < pipes[2].x + 60
    /\ bird.y - 15 * YS = pipes[2].gapY - 75 * YS

\* the pipes a step spliced out
Gone == SubSeq(removed', Len(removed) + 1, Len(removed'))

\* C11: a playing frame advances every active pipe exactly once and removes
\* it if and only if, advanced, pipe.x + 60 < 0; so no active pipe has
\* x + 60 < 0 and every removed pipe had.
C11_PruneExact ==
    /\ [](\A i \in DOMAIN pipes : pipes[i].x + 60 >= 0)
    /\ [](\A i \in DOMAIN removed : removed[i].x + 60 < 0)
    /\ [][IsFrame /\ gameState = "playing" =>
            LET dx == (PIPE_SPEED * DeltaTime(now')) \div FRAME
                after == pipes' \o Gone
            IN /\ Len(pipes') + Len(removed') = pipeId'
               /\ \A i \in DOMAIN pipes :
                     \E j \in DOMAIN after :
                        /\ after[j].id = pipes[i].id
                        /\ after[j].x = pipes[i].x - dx
               /\ \A i, j \in DOMAIN after : i # j => after[i].id # after[j].id]_vars


\* whether a gap centre leaves both pipe segments their minimum height
GapFits(g) ==
    LET gapTop == g - (YS * PIPE_GAP) \div 2
        gapBottom == g + (YS * PIPE_GAP) \div 2
    IN /\ 155 * YS <= g /\ g <= 365 * YS
       /\ gapBottom - gapTop = 150 * YS
       /\ gapTop >= 80 * YS
       /\ 520 * YS - gapBottom >= 80 * YS

\* C12: every pipe created has 155 <= gapY <= 365, so the gap is 150 high
\* and both segments are at least 80 high, for every draw n / RandDen in
\* [0, 1); a pipe's gapY never changes.
C12_GapBounds ==
    /\ [](/\ \A i \in DOMAIN pipes : GapFits(pipes[i].gapY)
          /\ \A i \in DOMAIN removed : GapFits(removed[i].gapY))
    /\ [][/\ pipeId' > pipeId =>
                /\ \A n \in 0..(RandDen - 1) : GapFits(GapY(n))
                /\ \E n \in 0..(RandDen - 1) : pipes'[Len(pipes')].gapY = GapY(n)
          /\ IsFrame =>
                \A i \in DOMAIN pipes : \A j \in DOMAIN pipes' :
                    pipes'[j].id = pipes[i].id => pipes'[j].gapY = pipes[i].gapY]_vars

\* a pipe with the smallest gap centre and one with the largest drawn are active
C12_Witness ==
    \E i, j \in DOMAIN pipes :
        /\ pipes[i].gapY = 155 * YS
        /\ pipes[j].gapY = GapY(RandDen - 1)
        /\ pipes[j].gapY > 363 * YS

\* C13: no step (frame, flap, reset, timer callback, unmount) lowers
\* bestScore, and a flap, resetGame included, leaves it as it is.
C13_BestMonotone ==
    [][/\ bestScore' >= bestScore
       /\ Flap => bestScore' = bestScore]_vars

\* a new run has been started, and reset, under the best score an earlier
\* run made
C13_Witness ==
    /\ gameState = "playing"
    /\ bestScore > MaxSavedBest
    /\ score = 0
    /\ emitted = <<"flap">>

\* one more flap would change nothing of the simulation state
FlapIdle == ~ENABLED (Flap /\ Sim' # Sim)

\* C14 (as amended): in ready and in playing, flaps between two frames
\* collapse: after the first, a flap changes nothing.  At game over they do
\* not: the first flap leaves the state ready, and a second one starts a run.
C14_FlapsCollapse ==
    [][/\ Flap /\ gameState \in {"ready", "playing"} => FlapIdle'
       /\ Flap /\ gameState = "gameover" =>
            /\ gameState' = "ready"
            /\ (ENABLED (Flap /\ gameState' = "playing" /\ bird'.velocity = -8 * VS))']_vars

\* C14 as stated: in every game state a second flap changes nothing
C14_AsStated == [][Flap => FlapIdle']_vars

\* a run started by the second of two flaps at game over, the clock not
\* having moved since the timer callback
C14_Witness ==
    /\ gameState = "playing"
    /\ bird = [RestingBird EXCEPT !.velocity = -8 * VS]
    /\ lastTime = now
    /\ now % STALL # 0
    /\ bestScore > MaxSavedBest
    /\ pendingFrame # 0

\* a playing frame used the multiplier k / FRAME: the ground scrolled by
\* 3 * dt, the velocity is min(velocity + 0.5 * dt, 12), y moved by the new
\* velocity times dt, and every pipe the loop advanced moved by 3 * dt (a
\* frame that threw left the pipes it did not reach where they were)
UsedDelta(k) ==
    /\ groundOffset' = groundOffset + (3 * k) \div FRAME
    /\ bird'.velocity = Min(bird.velocity + (VS * k) \div (2 * FRAME), 12 * VS)
    /\ bird'.y = bird.y + (YS * bird'.velocity * k) \div (VS * FRAME)
    /\ \A i \in DOMAIN pipes : \A j \in DOMAIN pipes' :
          pipes'[j].id = pipes[i].id =>
              \/ pipes'[j].x = pipes[i].x - (3 * k) \div FRAME
              \/ pendingFrame' = 0 /\ pipes'[j].x = pipes[i].x

\* C15 (as amended): a playing frame uses the multiplier
\* (timestamp - lastTime) / 16.67, where lastTime is the timestamp of the
\* frame before or, on the first playing frame of a run, the time of the flap
\* that started the run; it uses 1 only when lastTime is 0.
C15_DeltaFromFlap ==
    [][IsFrame /\ gameState = "playing" =>
          /\ lastTime # 0 => UsedDelta(now' - lastTime)
          /\ lastTime = 0 => UsedDelta(FRAME)]_vars

\* C15 as stated: the first playing frame after the flap that starts a run
\* uses the multiplier 1
C15_AsStated ==
    [][IsFrame /\ gameState = "playing" /\ groundOffset = 0 => UsedDelta(FRAME)]_vars

\* the first playing frame of a run started 4 clock units after a frame has
\* run, with the multiplier (STALL - 4) / FRAME
C15_Witness ==
    /\ gameState = "playing"
    /\ lastTime = now
    /\ groundOffset = STALL - 4
    /\ bird.velocity = -8 * VS + (VS * (STALL - 4)) \div (2 * FRAME)
    /\ pipeId = 0

\* C16 as stated: a frame that makes a new best score completes whether or
\* not the write of it fails: the best score keeps the new value, every pipe
\* is advanced, no active pipe is left off screen, the collision check runs,
\* and the next frame is scheduled.
C16_WriteFailureSwallowed ==
    [][IsFrame /\ gameState = "playing" /\ bestScore' > bestScore =>
          /\ bestScore' = score'
          /\ \A i \in DOMAIN pipes : \A j \in DOMAIN pipes' :
                pipes'[j].id = pipes[i].id =>
                    pipes'[j].x = pipes[i].x - (PIPE_SPEED * DeltaTime(now')) \div FRAME
          /\ \A j \in DOMAIN pipes' : ~OffScreen(pipes'[j])
          /\ ~hasHit /\ checkCollision(bird', pipes') => hasHit'
          /\ pendingFrame' # 0
          /\ pendingFrame' = animationFrame']_vars

\* C17: while a frame callback is scheduled, animationFrameRef holds its
\* handle, the last one requestAnimationFrame returned; the unmount cancels
\* it, so after the unmount no callback is scheduled and no frame runs.
C17_TeardownHalts ==
    /\ [](pendingFrame # 0 => pendingFrame = animationFrame /\ animationFrame = frameHandles)
    /\ [](~mounted => pendingFrame = 0 /\ ~ENABLED IsFrame)
    /\ [][/\ Teardown => pendingFrame' = 0
          /\ ~mounted => ~IsFrame /\ lastTime' = lastTime /\ bird' = bird /\ pipes' = pipes]_vars

\* the component was unmounted right after a playing frame that had
\* scheduled the next one
C17_Witness ==
    /\ ~mounted
    /\ gameState = "playing"
    /\ lastTime = now
    /\ groundOffset > 0
    /\ emitted = <<>>
    /\ animationFrame > 1
    /\ pendingFrame = 0

\* C18: a flap at game over leaves the state ready with the bird at y = 300,
\* velocity 0, rotation 0, no pipes, score 0, ground offset 0 and the hit
\* flag cleared, and applies no impulse and plays no flap sound; and whenever
\* the state is ready, the simulation state is that one.
C18_ReadyCanonical ==
    /\ [](gameState = "ready" =>
            /\ bird = [y |-> 300 * YS, velocity |-> 0, rotation |-> 0]
            /\ pipes = <<>>
            /\ score = 0
            /\ groundOffset = 0
            /\ ~hasHit
            /\ timers = <<>>)
    /\ [][Flap /\ gameState = "gameover" =>
            /\ gameState' = "ready"
            /\ bird'.velocity = 0
            /\ emitted' = <<>>]_vars

\* the ready screen after a run that made a best score and ended in a
\* callback that came between two frames
C18_Witness ==
    /\ gameState = "ready"
    /\ bestScore > MaxSavedBest
    /\ now % STALL # 0
    /\ lastTime < now
    /\ dieCount = 0

\* C19: a playing frame spawns at most one pipe, and only when its timestamp
\* is more than 1600 ms after lastPipeSpawn, the timestamp of the run's last
\* spawn (0 before the first), which it then sets to its own; the pipe is
\* pushed at the tail with x = 400 and passed = false, and advanced by the
\* same frame.
C19_SpawnInterval ==
    [][IsFrame /\ gameState = "playing" =>
          /\ pipeId' \in {pipeId, pipeId + 1}
          /\ pipeId' = pipeId => lastPipeSpawn' = lastPipeSpawn
          /\ pipeId' > pipeId =>
                LET p == pipes'[Len(pipes')]
                    dx == (3 * DeltaTime(now')) \div FRAME
                IN /\ (now' - lastPipeSpawn) * 1667 > 1600 * 100 * FRAME
                   /\ lastPipeSpawn' = now'
                   /\ Len(pipes') >= 1
                   /\ p.id = pipeId
                   /\ p.x = 400 - dx
                   /\ p.passed = (p.x + 60 < 80)]_vars

\* the second pipe of a run has just been spawned, 1600.32 ms after the first
C19_Witness ==
    /\ gameState = "playing"
    /\ pipeId = 2
    /\ Len(pipes) = 2
    /\ lastPipeSpawn = now
    /\ pipes[2].x = 400 - STALL
    /\ ~pipes[2].passed
    /\ pipes[1].x = pipes[2].x - PipeSpacing - 1 \/ pipes[1].x = pipes[2].x - PipeSpacing

\* C20: a playing frame with multiplier dt sets velocity to
\* min(velocity + 0.5 * dt, 12) and then y to y + velocity * dt with that new
\* velocity; from y = 300, velocity 0, no pipes and dt = 1 the result is
\* velocity 0.5, y 300.5 and no collision.
C20_PhysicsStep ==
    [][IsFrame /\ gameState = "playing" =>
          LET k == DeltaTime(now')
          IN /\ 2 * FRAME * bird'.velocity =
                    Min(2 * FRAME * bird.velocity + VS * k, 2 * FRAME * 12 * VS)
             /\ VS * FRAME * bird'.y = VS * FRAME * bird.y + YS * bird'.velocity * k
             /\ (/\ bird.y = 300 * YS /\ bird.velocity = 0
                 /\ pipes = <<>> /\ k = FRAME /\ ~hasHit) =>
                    /\ 2 * bird'.velocity = VS
                    /\ 2 * bird'.y = 601 * YS
                    /\ ~hasHit'
                    /\ pipes' = <<>>]_vars

\* the frame of the scenario has run: velocity 0.5, y 300.5, no collision
C20_Witness ==
    /\ gameState = "playing"
    /\ lastTime = now
    /\ 2 * bird.velocity = VS
    /\ 2 * bird.y = 601 * YS
    /\ groundOffset = PIPE_SPEED
    /\ pipes = <<>>
    /\ ~hasHit

\* C21: a frame while the state is ready or gameover changes neither the
\* bird, the pipes, the score, the best score, the ground offset nor the hit
\* flag, spawns no pipe and emits no audio event; it sets the last-frame
\* timestamp to its own.
C21_IdleFrame ==
    [][IsFrame /\ gameState \in {"ready", "gameover"} =>
          /\ UNCHANGED <<gameState, bird, pipes, score, bestScore, groundOffset,
                         hasHit, pipeId, lastPipeSpawn, removed, timers,
                         hitCount, dieCount>>
          /\ emitted' = <<>>
          /\ lastTime' = now'
          /\ lastTime' > lastTime]_vars

\* a frame has run at game over, over the pipes and the bird the run left
C21_Witness ==
    /\ gameState = "gameover"
    /\ emitted = <<>>
    /\ lastTime = now
    /\ pipes # <<>>
    /\ checkCollision(bird, pipes)
    /\ pendingFrame # 0

\* C22: with the best score seeded by a non-negative integer, the best score
\* is at least the score after every frame and every flap, in every game
\* state.
C22_BestCoversScore == bestScore >= score /\ score >= 0

\* a frame has scored a pipe, raised the best score to the score and failed
\* to store it
C22_Witness ==
    /\ gameState = "playing"
    /\ emitted # <<>>
    /\ Head(emitted) = "score"
    /\ bestScore = score
    /\ mounted
    /\ pendingFrame = 0

\* C23: at most one hit-to-gameover timer is pending at any time; while one
\* is pending the state is playing with the hit flag set, and no flap or
\* frame resets the run or drops the timer, so the callback runs in the run
\* that scheduled it, in state playing; and the state is gameover only with
\* the hit flag set.
C23_OneTimerOneRun ==
    /\ [](/\ Len(timers) <= 1
          /\ timers # <<>> => /\ gameState = "playing"
                               /\ hasHit
                               /\ hitCount = 1
                               /\ dieCount = 0
                               /\ Head(timers) <= now
          /\ gameState = "gameover" => hasHit /\ timers = <<>>
          /\ gameState = "ready" => timers = <<>>)
    /\ [][/\ timers # <<>> =>
                /\ hasHit'
                /\ pipeId' >= pipeId
                /\ score' >= score
                /\ \/ timers' = timers /\ gameState' = "playing"
                   \/ timers' = <<>> /\ gameState' = "gameover"
          /\ timers' # timers /\ timers' = <<>> =>
                gameState = "playing" /\ hasHit /\ Len(timers) = 1]_vars

\* the timer is due after a frame and then a flap arrived while it was
\* pending
C23_Witness ==
    /\ gameState = "playing"
    /\ timers # <<>>
    /\ Expired(Head(timers), now)
    /\ lastTime > Head(timers)
    /\ emitted = <<"flap">>

\* C24: the active pipe list holds at most 2 pipes at the end of every frame,
\* whatever the pacing of the frames.
C24_AtMostTwoPipes == Len(pipes) <= 2

=============================================================================
